---- MODULE Spec2Model ----
(***************************************************************************)
(* Model of VolunteerActivityMatcher (src/app.py): the in-memory document  *)
(* of users and activities, its JSON file, and the operations on them.     *)
(*                                                                         *)
(* Python values are represented as follows.                               *)
(*   - a dict with fixed keys is a record, a list is a sequence;           *)
(*   - names, categories and locations are strings compared for equality   *)
(*     only; non-ASCII text of the source is transliterated, the original  *)
(*     is quoted in the comment beside it;                                 *)
(*   - a day label or weekday name is a sequence of characters, each       *)
(*     character a one-token string ("zhou" stands for the character of    *)
(*     the source's day labels, "yi".."ri" for the seven day characters);  *)
(*   - a date string "YYYY-MM-DD" is the record [y, m, d] of its three     *)
(*     numbers; strptime decides whether it names a calendar date.         *)
(***************************************************************************)
EXTENDS Integers, Sequences, FiniteSets, TLC

VARIABLES
    data,    \* matcher.data: the in-memory document
    file,    \* volunteer_data.json
    op,      \* the last operation called and its arguments
    result,  \* what that operation returned
    peer,    \* a second process running the script on the same file
    undo     \* the document and file as they were before the last registration

vars == <<data, file, op, result, peer, undo>>

----------------------------------------------------------------------------
(* Bounds of the model.                                                    *)

MaxUsers == 2
MaxActivities == 2
MaxRegistrations == 3
MaxUsersM == 1
MaxActivitiesM == 2

\* the same counts where the operations that only read are exercised
MaxUsersR == 1
MaxActivitiesR == 2
MaxRegistrationsR == 1

----------------------------------------------------------------------------
(* Sequence helpers: Python list operations.                               *)

\* x in lst
In(x, lst) == \E i \in 1..Len(lst) : lst[i] = x

\* the index of the first element equal to x (0 when there is none)
IndexOf(x, lst) ==
    IF In(x, lst) THEN CHOOSE i \in 1..Len(lst) : lst[i] = x /\ \A j \in 1..(i-1) : lst[j] # x
    ELSE 0

\* lst.remove(x), for x in lst: the first occurrence is deleted
ListRemove(lst, x) ==
    LET i == IndexOf(x, lst)
    IN SubSeq(lst, 1, i-1) \o SubSeq(lst, i+1, Len(lst))

----------------------------------------------------------------------------
(* The JSON file: json.dump and json.load.                                 *)
(* A JSON text is modelled by the value it denotes, every node tagged with *)
(* its JSON type; a file that does not exist, or whose text is not JSON,   *)
(* carries no value.                                                       *)

JNum(n) == [t |-> "num", v |-> n]
JStr(s) == [t |-> "str", v |-> s]
JArr(s) == [t |-> "arr", v |-> s]
JObj(r) == [t |-> "obj", v |-> r]

NoFile == [exists |-> FALSE, parses |-> FALSE, json |-> JArr(<<>>)]
CorruptFile == [exists |-> TRUE, parses |-> FALSE, json |-> JArr(<<>>)]

dump_user(u) ==
    JObj([id |-> JNum(u.id),
          name |-> JStr(u.name),
          location |-> JStr(u.location),
          preferred_categories |->
              JArr([i \in 1..Len(u.preferred_categories) |-> JStr(u.preferred_categories[i])]),
          available_days |->
              JArr([i \in 1..Len(u.available_days) |-> JStr(u.available_days[i])]),
          registered_activities |->
              JArr([i \in 1..Len(u.registered_activities) |-> JNum(u.registered_activities[i])])])

dump_activity(a) ==
    JObj([id |-> JNum(a.id),
          name |-> JStr(a.name),
          category |-> JStr(a.category),
          location |-> JStr(a.location),
          date |-> JStr(a.date),
          time_range |-> JStr(a.time_range),
          description |-> JStr(a.description),
          participants |->
              JArr([i \in 1..Len(a.participants) |-> JNum(a.participants[i])])])

\* json.dump(self.data, f, ensure_ascii=False, indent=2)
json_dump(doc) ==
    JObj([users |-> JArr([i \in 1..Len(doc.users) |-> dump_user(doc.users[i])]),
          activities |-> JArr([i \in 1..Len(doc.activities) |-> dump_activity(doc.activities[i])])])

\* json.load(f): objects become dicts, arrays lists, numbers and strings themselves
RECURSIVE json_load(_)
json_load(j) ==
    IF j.t = "obj" THEN [k \in DOMAIN j.v |-> json_load(j.v[k])]
    ELSE IF j.t = "arr" THEN [i \in 1..Len(j.v) |-> json_load(j.v[i])]
    ELSE j.v

EmptyData == [users |-> <<>>, activities |-> <<>>]

\* _load_data taking a document without users for a missing one
load_data_needing_users(f) ==
    IF f.exists /\ f.parses /\ json_load(f.json).users # <<>>
    THEN json_load(f.json) ELSE EmptyData

\* _load_data
load_data(f) ==
    IF f.exists /\ f.parses THEN json_load(f.json) ELSE EmptyData

\* _save_data: the file is overwritten with the dump of the whole document
save_data(doc) == [exists |-> TRUE, parses |-> TRUE, json |-> json_dump(doc)]

----------------------------------------------------------------------------
(* Dates and weekday names: datetime.strptime(date, "%Y-%m-%d") and        *)
(* strftime("%A").                                                         *)

IsLeap(y) == y % 4 = 0 /\ (y % 100 # 0 \/ y % 400 = 0)

DaysInMonth(y, m) ==
    IF m = 2 THEN (IF IsLeap(y) THEN 29 ELSE 28)
    ELSE IF m \in {4, 6, 9, 11} THEN 30 ELSE 31

RECURSIVE DaysBeforeMonth(_, _)
DaysBeforeMonth(y, m) ==
    IF m <= 1 THEN 0 ELSE DaysBeforeMonth(y, m - 1) + DaysInMonth(y, m - 1)

DaysBeforeYear(y) ==
    (y - 1) * 365 + ((y - 1) \div 4) - ((y - 1) \div 100) + ((y - 1) \div 400)

\* strptime succeeds exactly on the strings that name a calendar date;
\* on any other string it raises ValueError
Parseable(date) ==
    /\ date.y \in 1..9999
    /\ date.m \in 1..12
    /\ date.d \in 1..DaysInMonth(date.y, date.m)

\* datetime.weekday(): 0 is Monday, 6 is Sunday
Weekday(date) ==
    (DaysBeforeYear(date.y) + DaysBeforeMonth(date.y, date.m) + date.d + 6) % 7

DayNames ==
    << <<"M","o","n","d","a","y">>,
       <<"T","u","e","s","d","a","y">>,
       <<"W","e","d","n","e","s","d","a","y">>,
       <<"T","h","u","r","s","d","a","y">>,
       <<"F","r","i","d","a","y">>,
       <<"S","a","t","u","r","d","a","y">>,
       <<"S","u","n","d","a","y">> >>

\* strptime(date, "%Y-%m-%d").strftime("%A"), for a parseable date
activity_day(date) == DayNames[Weekday(date) + 1]

UpperCase == <<"A","B","C","D","E","F","G","H","I","J","K","L","M",
               "N","O","P","Q","R","S","T","U","V","W","X","Y","Z">>
LowerCase == <<"a","b","c","d","e","f","g","h","i","j","k","l","m",
               "n","o","p","q","r","s","t","u","v","w","x","y","z">>

\* str.lower()
Lower(s) ==
    [i \in 1..Len(s) |->
        IF In(s[i], UpperCase) THEN LowerCase[IndexOf(s[i], UpperCase)] ELSE s[i]]

\* s in t, for strings
IsSubstring(s, t) ==
    \E i \in 0..(Len(t) - Len(s)) : SubSeq(t, i + 1, i + Len(s)) = s

\* chinese_days with the names of the last two days exchanged
chinese_days_weekend_swapped ==
    [k \in { <<"zhou","yi">>, <<"zhou","er">>, <<"zhou","san">>, <<"zhou","si">>,
             <<"zhou","wu">>, <<"zhou","liu">>, <<"zhou","ri">> } |->
        CASE k = <<"zhou","yi">>  -> DayNames[1]
          [] k = <<"zhou","er">>  -> DayNames[2]
          [] k = <<"zhou","san">> -> DayNames[3]
          [] k = <<"zhou","si">>  -> DayNames[4]
          [] k = <<"zhou","wu">>  -> DayNames[5]
          [] k = <<"zhou","liu">> -> DayNames[7]
          [] k = <<"zhou","ri">>  -> DayNames[6]]

\* the dict chinese_days whose keys are the labels of the registration form
chinese_days ==
    [k \in { <<"zhou","yi">>, <<"zhou","er">>, <<"zhou","san">>, <<"zhou","si">>,
             <<"zhou","wu">>, <<"zhou","liu">>, <<"zhou","ri">> } |->
        CASE k = <<"zhou","yi">>  -> DayNames[1]
          [] k = <<"zhou","er">>  -> DayNames[2]
          [] k = <<"zhou","san">> -> DayNames[3]
          [] k = <<"zhou","si">>  -> DayNames[4]
          [] k = <<"zhou","wu">>  -> DayNames[5]
          [] k = <<"zhou","liu">> -> DayNames[6]
          [] k = <<"zhou","ri">>  -> DayNames[7]]

----------------------------------------------------------------------------
(* The operations of VolunteerActivityMatcher. Each is a function of the   *)
(* document: it gives the document after the call, what the call returns   *)
(* and whether the call saved.                                             *)

\* next((r for r in lst if r["id"] == id), None): the index of the first
\* record with that id, 0 for None
FindById(lst, id) ==
    IF \E i \in 1..Len(lst) : lst[i].id = id
    THEN CHOOSE i \in 1..Len(lst) : lst[i].id = id /\ \A j \in 1..(i-1) : lst[j].id # id
    ELSE 0

\* add_activity keeping the new activity in memory only
add_activity_unsaved(doc, name, category, location, date, time_range, description) ==
    LET activity == [id |-> Len(doc.activities) + 1,
                     name |-> name,
                     category |-> category,
                     location |-> location,
                     date |-> date,
                     time_range |-> time_range,
                     description |-> description,
                     participants |-> <<>>]
    IN [data |-> [doc EXCEPT !.activities = Append(@, activity)],
        ret |-> activity,
        saved |-> FALSE]

\* add_activity numbering the activity after the users collection
add_activity_counting_users(doc, name, category, location, date, time_range, description) ==
    LET activity == [id |-> Len(doc.users) + 1,
                     name |-> name,
                     category |-> category,
                     location |-> location,
                     date |-> date,
                     time_range |-> time_range,
                     description |-> description,
                     participants |-> <<>>]
    IN [data |-> [doc EXCEPT !.activities = Append(@, activity)],
        ret |-> activity,
        saved |-> TRUE]

add_activity(doc, name, category, location, date, time_range, description) ==
    LET activity == [id |-> Len(doc.activities) + 1,
                     name |-> name,
                     category |-> category,
                     location |-> location,
                     date |-> date,
                     time_range |-> time_range,
                     description |-> description,
                     participants |-> <<>>]
    IN [data |-> [doc EXCEPT !.activities = Append(@, activity)],
        ret |-> activity,
        saved |-> TRUE]

\* register_user putting the new user at the head of the collection
register_user_at_head(doc, name, location, preferred_categories, available_days) ==
    LET user == [id |-> Len(doc.users) + 1,
                 name |-> name,
                 location |-> location,
                 preferred_categories |-> preferred_categories,
                 available_days |-> available_days,
                 registered_activities |-> <<>>]
    IN [data |-> [doc EXCEPT !.users = <<user>> \o @],
        ret |-> user,
        saved |-> TRUE]

register_user(doc, name, location, preferred_categories, available_days) ==
    LET user == [id |-> Len(doc.users) + 1,
                 name |-> name,
                 location |-> location,
                 preferred_categories |-> preferred_categories,
                 available_days |-> available_days,
                 registered_activities |-> <<>>]
    IN [data |-> [doc EXCEPT !.users = Append(@, user)],
        ret |-> user,
        saved |-> TRUE]

\* the loop over user["available_days"], left at the first label that matches
RECURSIVE day_matched(_, _)
day_matched(available_days, day) ==
    IF available_days = <<>> THEN FALSE
    ELSE LET user_day == Head(available_days)
         IN IF IsSubstring(Lower(user_day), Lower(day)) THEN TRUE
            ELSE IF /\ user_day \in DOMAIN chinese_days
                    /\ IsSubstring(Lower(chinese_days[user_day]), Lower(day))
                 THEN TRUE
                 ELSE day_matched(Tail(available_days), day)

category_matched(user, activity) == In(activity.category, user.preferred_categories)

location_matched(user, activity) == activity.location = user.location

\* the matching condition with category and location both required
is_match_strict(user, activity) ==
    /\ day_matched(user.available_days, activity_day(activity.date))
    /\ category_matched(user, activity)
    /\ location_matched(user, activity)

\* the condition under which the loop appends the activity to matched
is_match(user, activity) ==
    /\ day_matched(user.available_days, activity_day(activity.date))
    /\ (category_matched(user, activity) \/ location_matched(user, activity))

\* the loop over self.data["activities"]: strptime raises on the first date
\* that does not parse, and the call ends there
\* the loop stepping over an activity whose date does not parse
RECURSIVE match_loop_skipping(_, _, _)
match_loop_skipping(user, activities, matched) ==
    IF activities = <<>> THEN [raised |-> "none", value |-> matched]
    ELSE LET activity == Head(activities)
         IN IF ~Parseable(activity.date)
            THEN match_loop_skipping(user, Tail(activities), matched)
            ELSE match_loop_skipping(user, Tail(activities),
                                     IF is_match(user, activity) THEN Append(matched, activity)
                                     ELSE matched)

\* the loop putting each match in front of the earlier ones
RECURSIVE match_loop_newest_first(_, _, _)
match_loop_newest_first(user, activities, matched) ==
    IF activities = <<>> THEN [raised |-> "none", value |-> matched]
    ELSE LET activity == Head(activities)
         IN IF ~Parseable(activity.date) THEN [raised |-> "ValueError", value |-> <<>>]
            ELSE match_loop_newest_first(user, Tail(activities),
                                         IF is_match(user, activity)
                                         THEN <<activity>> \o matched
                                         ELSE matched)

RECURSIVE match_loop(_, _, _)
match_loop(user, activities, matched) ==
    IF activities = <<>> THEN [raised |-> "none", value |-> matched]
    ELSE LET activity == Head(activities)
         IN IF ~Parseable(activity.date) THEN [raised |-> "ValueError", value |-> <<>>]
            ELSE match_loop(user, Tail(activities),
                            IF is_match(user, activity) THEN Append(matched, activity)
                            ELSE matched)

\* match_activities reading every date before it looks the user up
match_activities_dates_first(doc, user_id) ==
    LET u == FindById(doc.users, user_id)
    IN IF \E j \in 1..Len(doc.activities) : ~Parseable(doc.activities[j].date)
       THEN [raised |-> "ValueError", value |-> <<>>]
       ELSE IF u = 0 THEN [raised |-> "none", value |-> <<>>]
       ELSE match_loop(doc.users[u], doc.activities, <<>>)

match_activities(doc, user_id) ==
    LET u == FindById(doc.users, user_id)
    IN IF u = 0 THEN [raised |-> "none", value |-> <<>>]
       ELSE match_loop(doc.users[u], doc.activities, <<>>)

\* return values of register_for_activity
UserNotFound == "user does not exist"                \* "用户不存在"
ActivityNotFound == "activity does not exist"        \* "活动不存在"
AlreadyRegistered == "you are already registered"    \* "你已报名参加此活动"
Registered(name) == <<"registered for activity: ", name>>  \* f"成功报名参加活动: {name}"

\* register_for_activity without the test for an earlier registration
register_again(doc, user_id, activity_id) ==
    LET u == FindById(doc.users, user_id)
        a == FindById(doc.activities, activity_id)
    IN IF u = 0 THEN [data |-> doc, ret |-> <<UserNotFound>>, saved |-> FALSE]
       ELSE IF a = 0 THEN [data |-> doc, ret |-> <<ActivityNotFound>>, saved |-> FALSE]
       ELSE [data |-> [doc EXCEPT
                         !.users[u].registered_activities = Append(@, activity_id),
                         !.activities[a].participants = Append(@, user_id)],
             ret |-> Registered(doc.activities[a].name),
             saved |-> TRUE]

\* register_for_activity saving before it looks at its arguments
register_saving_first(doc, user_id, activity_id) ==
    LET u == FindById(doc.users, user_id)
        a == FindById(doc.activities, activity_id)
    IN IF u = 0 THEN [data |-> doc, ret |-> <<UserNotFound>>, saved |-> TRUE]
       ELSE IF a = 0 THEN [data |-> doc, ret |-> <<ActivityNotFound>>, saved |-> TRUE]
       ELSE IF In(activity_id, doc.users[u].registered_activities)
            THEN [data |-> doc, ret |-> <<AlreadyRegistered>>, saved |-> TRUE]
       ELSE [data |-> [doc EXCEPT
                         !.users[u].registered_activities = Append(@, activity_id),
                         !.activities[a].participants = Append(@, user_id)],
             ret |-> Registered(doc.activities[a].name),
             saved |-> TRUE]

\* register_for_activity testing the activity before the user
register_activity_first(doc, user_id, activity_id) ==
    LET u == FindById(doc.users, user_id)
        a == FindById(doc.activities, activity_id)
    IN IF a = 0 THEN [data |-> doc, ret |-> <<ActivityNotFound>>, saved |-> FALSE]
       ELSE IF u = 0 THEN [data |-> doc, ret |-> <<UserNotFound>>, saved |-> FALSE]
       ELSE IF In(activity_id, doc.users[u].registered_activities)
            THEN [data |-> doc, ret |-> <<AlreadyRegistered>>, saved |-> FALSE]
       ELSE [data |-> [doc EXCEPT
                         !.users[u].registered_activities = Append(@, activity_id),
                         !.activities[a].participants = Append(@, user_id)],
             ret |-> Registered(doc.activities[a].name),
             saved |-> TRUE]

\* register_for_activity putting the ids at the head of the two lists
register_at_head(doc, user_id, activity_id) ==
    LET u == FindById(doc.users, user_id)
        a == FindById(doc.activities, activity_id)
    IN IF u = 0 THEN [data |-> doc, ret |-> <<UserNotFound>>, saved |-> FALSE]
       ELSE IF a = 0 THEN [data |-> doc, ret |-> <<ActivityNotFound>>, saved |-> FALSE]
       ELSE IF In(activity_id, doc.users[u].registered_activities)
            THEN [data |-> doc, ret |-> <<AlreadyRegistered>>, saved |-> FALSE]
       ELSE [data |-> [doc EXCEPT
                         !.users[u].registered_activities = <<activity_id>> \o @,
                         !.activities[a].participants = <<user_id>> \o @],
             ret |-> Registered(doc.activities[a].name),
             saved |-> TRUE]

\* register_for_activity without the test that the activity exists: the
\* user's list is appended to, then activity["participants"] raises on None
register_unknown_activity(doc, user_id, activity_id) ==
    LET u == FindById(doc.users, user_id)
        a == FindById(doc.activities, activity_id)
    IN IF u = 0 THEN [data |-> doc, ret |-> <<UserNotFound>>, saved |-> FALSE]
       ELSE IF In(activity_id, doc.users[u].registered_activities)
            THEN [data |-> doc, ret |-> <<AlreadyRegistered>>, saved |-> FALSE]
       ELSE IF a = 0
            THEN [data |-> [doc EXCEPT
                              !.users[u].registered_activities = Append(@, activity_id)],
                  ret |-> <<"TypeError">>, saved |-> FALSE]
       ELSE [data |-> [doc EXCEPT
                         !.users[u].registered_activities = Append(@, activity_id),
                         !.activities[a].participants = Append(@, user_id)],
             ret |-> Registered(doc.activities[a].name),
             saved |-> TRUE]

register_for_activity(doc, user_id, activity_id) ==
    LET u == FindById(doc.users, user_id)
        a == FindById(doc.activities, activity_id)
    IN IF u = 0 THEN [data |-> doc, ret |-> <<UserNotFound>>, saved |-> FALSE]
       ELSE IF a = 0 THEN [data |-> doc, ret |-> <<ActivityNotFound>>, saved |-> FALSE]
       ELSE IF In(activity_id, doc.users[u].registered_activities)
            THEN [data |-> doc, ret |-> <<AlreadyRegistered>>, saved |-> FALSE]
       ELSE [data |-> [doc EXCEPT
                         !.users[u].registered_activities = Append(@, activity_id),
                         !.activities[a].participants = Append(@, user_id)],
             ret |-> Registered(doc.activities[a].name),
             saved |-> TRUE]

list_activities(doc) == doc.activities

RECURSIVE registered_of(_, _)
registered_of(user, activities) ==
    IF activities = <<>> THEN <<>>
    ELSE (IF In(Head(activities).id, user.registered_activities)
          THEN <<Head(activities)>> ELSE <<>>) \o registered_of(user, Tail(activities))

list_user_activities(doc, user_id) ==
    LET u == FindById(doc.users, user_id)
    IN IF u = 0 THEN <<>> ELSE registered_of(doc.users[u], doc.activities)

Unregistered(name) == <<"unregistered: ", name>>   \* f"已成功取消报名: {name}"

\* the handler leaving the activity's participants as they are
unregister_user_side(doc, user_id, a) ==
    LET u == FindById(doc.users, user_id)
        activity == doc.activities[a]
        d1 == IF In(activity.id, doc.users[u].registered_activities)
              THEN [doc EXCEPT !.users[u].registered_activities = ListRemove(@, activity.id)]
              ELSE doc
    IN [data |-> d1, ret |-> Unregistered(activity.name), saved |-> TRUE]

\* the handler without the call of _save_data
unregister_unsaved(doc, user_id, a) ==
    LET u == FindById(doc.users, user_id)
        activity == doc.activities[a]
        d1 == IF In(activity.id, doc.users[u].registered_activities)
              THEN [doc EXCEPT !.users[u].registered_activities = ListRemove(@, activity.id)]
              ELSE doc
        d2 == IF In(user_id, activity.participants)
              THEN [d1 EXCEPT !.activities[a].participants = ListRemove(@, user_id)]
              ELSE d1
    IN [data |-> d2, ret |-> Unregistered(activity.name), saved |-> FALSE]

\* the handler without its two membership tests: list.remove raises
\* ValueError on a value the list does not hold
\* unregister taking the user out of the activity's participants and
\* leaving the user's own list as it is
unregister_activity_side(doc, user_id, a) ==
    LET activity == doc.activities[a]
        u == FindById(doc.users, user_id)
    IN [data |-> [doc EXCEPT !.activities[a].participants =
                                 IF In(user_id, @) THEN ListRemove(@, user_id) ELSE @],
        ret |-> Unregistered(activity.name),
        saved |-> TRUE]

unregister_unchecked(doc, user_id, a) ==
    LET u == FindById(doc.users, user_id)
        activity == doc.activities[a]
        d1 == [doc EXCEPT !.users[u].registered_activities = ListRemove(@, activity.id)]
        d2 == [d1 EXCEPT !.activities[a].participants = ListRemove(@, user_id)]
    IN IF ~In(activity.id, doc.users[u].registered_activities)
       THEN [data |-> doc, ret |-> <<"ValueError">>, saved |-> FALSE]
       ELSE IF ~In(user_id, activity.participants)
       THEN [data |-> d1, ret |-> <<"ValueError">>, saved |-> FALSE]
       ELSE [data |-> d2, ret |-> Unregistered(activity.name), saved |-> TRUE]

\* the handler of the cancel button shown beside activity number a of the
\* document, an activity of list_user_activities(user_id)
unregister(doc, user_id, a) ==
    LET u == FindById(doc.users, user_id)
        activity == doc.activities[a]
        d1 == IF In(activity.id, doc.users[u].registered_activities)
              THEN [doc EXCEPT !.users[u].registered_activities = ListRemove(@, activity.id)]
              ELSE doc
        d2 == IF In(user_id, activity.participants)
              THEN [d1 EXCEPT !.activities[a].participants = ListRemove(@, user_id)]
              ELSE d1
    IN [data |-> d2, ret |-> Unregistered(activity.name), saved |-> TRUE]

----------------------------------------------------------------------------
(* Arguments the operations are called with.                               *)

Dongcheng == "Dongcheng"      \* "东城区"
Xicheng == "Xicheng"          \* "西城区"
Environment == "environment"  \* "环保活动"
Education == "education"      \* "教育支持"

Label(c) == <<"zhou", c>>     \* the day labels "周一" .. "周日"

Date(y, m, d) == [y |-> y, m |-> m, d |-> d]

NewUser(name, location, preferred_categories, available_days) ==
    [name |-> name, location |-> location,
     preferred_categories |-> preferred_categories, available_days |-> available_days]

NewActivity(name, category, location, date) ==
    [name |-> name, category |-> category, location |-> location, date |-> date,
     time_range |-> "09:00-12:00", description |-> "text"]

\* 2024-01-03 is a Wednesday, 2024-01-07 a Sunday, 2024-02-29 a Thursday;
\* 2023-02-29 is no calendar date
Users ==
    { NewUser("Li", Dongcheng, <<Environment>>, <<Label("san")>>) }

Activities ==
    { NewActivity("planting", Environment, Dongcheng, Date(2024, 1, 3)) }

\* the arguments of the matching rule: every combination of day, category
\* and location agreeing or not, labels in both vocabularies, in either
\* case, and labels that are neither
UsersM ==
    { NewUser("Li", Dongcheng, <<Environment>>, <<Label("san")>>),
      NewUser("Li", Dongcheng, <<Environment>>,
              << <<"M","o","n","d","a","y">>, <<"W","e","d","n","e","s","d","a","y">>,
                 <<"f","r","i","d","a","y">> >>),
      NewUser("Wang", Xicheng, <<Education, Environment>>,
              <<Label("yi"), Label("er"), Label("ri")>>),
      NewUser("Wang", Xicheng, <<Education>>,
              << <<"T","H","U","R","S","D","A","Y">>, Label("liu"), Label("wu"),
                 <<"T","u","e","s","d","a","y">> >>),
      NewUser("Zhao", Dongcheng, <<Environment>>, << <<"d","a","y">> >>),
      NewUser("Zhao", Dongcheng, <<Environment>>, << <<"S","u","n">> >>),
      NewUser("Sun", Dongcheng, <<Environment>>, << Label("ba") >>),
      NewUser("Sun", Dongcheng, <<Environment>>, <<>>) }

ActivitiesM ==
    { NewActivity("a1", Environment, Dongcheng, Date(2024, 1, 3)),
      NewActivity("a2", Environment, Xicheng, Date(2024, 1, 3)),
      NewActivity("a3", Education, Dongcheng, Date(2024, 1, 3)),
      NewActivity("a4", Education, Xicheng, Date(2024, 1, 3)),
      NewActivity("a5", Environment, Xicheng, Date(2024, 1, 7)),
      NewActivity("a6", Education, Dongcheng, Date(2024, 2, 29)),
      NewActivity("a7", Environment, Dongcheng, Date(2023, 2, 29)) }

\* ids an operation is called with: those in use and one that is not
UserIds == 1..(Len(data.users) + 1)
ActivityIds == 1..(Len(data.activities) + 1)

----------------------------------------------------------------------------
(* The state machine.                                                      *)

Call(name, user_id, activity_id) ==
    [name |-> name, user_id |-> user_id, activity_id |-> activity_id]

NoUndo == [phase |-> 0, data |-> EmptyData, file |-> NoFile]

\* the script has run matcher = VolunteerActivityMatcher() on one of files,
\* in this process and in the second one
InitWith(files) ==
    /\ file \in files
    /\ data = load_data(file)
    /\ op = Call("init", 0, 0)
    /\ result = <<>>
    /\ peer = [data |-> load_data(file), op |-> Call("init", 0, 0), result |-> <<>>]
    /\ undo = NoUndo

Init == InitWith({NoFile, CorruptFile})

\* the end of a call: the document it leaves, the file if it saved, and
\* what it returned
Finish(name, user_id, activity_id, r) ==
    /\ data' = r.data
    /\ file' = IF r.saved THEN save_data(r.data) ELSE file
    /\ op' = Call(name, user_id, activity_id)
    /\ result' = r.ret

Return(name, user_id, activity_id, r) ==
    /\ Finish(name, user_id, activity_id, r)
    /\ UNCHANGED <<peer, undo>>

Read(ret) == [data |-> data, ret |-> ret, saved |-> FALSE]

\* matcher = VolunteerActivityMatcher(), run again at every run of the script
Load ==
    /\ data' = load_data(file)
    /\ file' = file
    /\ op' = Call("load", 0, 0)
    /\ result' = <<>>
    /\ UNCHANGED <<peer, undo>>

AddActivityOf(inputs, max) ==
    \E i \in inputs :
        /\ Len(data.activities) < max
        /\ Return("add_activity", 0, 0,
                  add_activity(data, i.name, i.category, i.location, i.date,
                               i.time_range, i.description))

RegisterUserOf(inputs, max) ==
    \E i \in inputs :
        /\ Len(data.users) < max
        /\ Return("register_user", 0, 0,
                  register_user(data, i.name, i.location, i.preferred_categories,
                                i.available_days))

AddActivity == AddActivityOf(Activities, MaxActivities)

RegisterUser == RegisterUserOf(Users, MaxUsers)

MatchActivities ==
    \E user_id \in UserIds :
        Return("match_activities", user_id, 0, Read(match_activities(data, user_id)))

\* the number of registrations a document holds
RECURSIVE Registrations(_)
Registrations(users) ==
    IF users = <<>> THEN 0
    ELSE Len(Head(users).registered_activities) + Registrations(Tail(users))

RegisterForActivity ==
    \E user_id \in UserIds, activity_id \in ActivityIds :
        LET r == register_for_activity(data, user_id, activity_id)
        IN /\ Registrations(r.data.users) <= MaxRegistrations
           /\ Return("register_for_activity", user_id, activity_id, r)

ListActivities ==
    Return("list_activities", 0, 0, Read(list_activities(data)))

ListUserActivities ==
    \E user_id \in UserIds :
        Return("list_user_activities", user_id, 0, Read(list_user_activities(data, user_id)))

\* the cancel button exists for the activities list_user_activities(user_id)
\* returned, and for no other
Unregister ==
    \E user_id \in UserIds, a \in 1..Len(data.activities) :
        /\ In(data.activities[a], list_user_activities(data, user_id))
        /\ Return("unregister", user_id, data.activities[a].id, unregister(data, user_id, a))

Next ==
    \/ Load
    \/ AddActivity
    \/ RegisterUser
    \/ MatchActivities
    \/ RegisterForActivity
    \/ ListActivities
    \/ ListUserActivities
    \/ Unregister

Spec == Init /\ [][Next]_vars

\* the matching rule on its own: users and activities of every kind, no
\* registrations
AddActivityM == AddActivityOf(ActivitiesM, MaxActivitiesM)

RegisterUserM == RegisterUserOf(UsersM, MaxUsersM)

NextMatch ==
    \/ AddActivityM
    \/ RegisterUserM
    \/ MatchActivities

SpecMatch == Init /\ [][NextMatch]_vars

----------------------------------------------------------------------------
(* The file as the script finds it: written by an earlier run, by another  *)
(* program or by hand.                                                     *)

StoredUser(id, registered_activities) ==
    [id |-> id, name |-> "Li", location |-> Dongcheng,
     preferred_categories |-> <<Environment>>, available_days |-> <<Label("san")>>,
     registered_activities |-> registered_activities]

StoredActivity(id, participants) ==
    [id |-> id, name |-> "planting", category |-> Environment, location |-> Dongcheng,
     date |-> Date(2024, 1, 3), time_range |-> "09:00-12:00", description |-> "text",
     participants |-> participants]

\* documents with both collections and every field of every record
StoredDocuments ==
    { [users |-> <<>>, activities |-> <<StoredActivity(1, <<>>)>>],
      [users |-> <<StoredUser(1, <<1>>)>>, activities |-> <<StoredActivity(1, <<1>>)>>],
      [users |-> <<StoredUser(3, <<5>>), StoredUser(7, <<5>>)>>,
       activities |-> <<StoredActivity(5, <<7, 3>>)>>] }

\* the JSON text {"users": []}: it parses, and has no activities
UsersOnlyFile ==
    [exists |-> TRUE, parses |-> TRUE, json |-> JObj([users |-> JArr(<<>>)])]

StoredFiles ==
    {NoFile, CorruptFile, UsersOnlyFile} \cup {save_data(d) : d \in StoredDocuments}

InitLoad == InitWith(StoredFiles)

\* the document has the two keys every method reads
WellFormed(doc) == DOMAIN doc = {"users", "activities"}

\* the script reads matcher.data["activities"] as soon as it has built the
\* matcher: on a document without that key the run ends there in KeyError,
\* before any method is called
SeedTest == "activities" \in DOMAIN data

\* matcher._save_data() with the document as it is
SaveDocument ==
    /\ SeedTest
    /\ WellFormed(data)
    /\ data' = data
    /\ file' = save_data(data)
    /\ op' = Call("save", 0, 0)
    /\ result' = <<>>
    /\ UNCHANGED <<peer, undo>>

AddActivityL == SeedTest /\ WellFormed(data) /\ AddActivity

RegisterUserL == SeedTest /\ WellFormed(data) /\ RegisterUser

RegisterForActivityL == SeedTest /\ WellFormed(data) /\ RegisterForActivity

NextLoad ==
    \/ Load
    \/ SaveDocument
    \/ AddActivityL
    \/ RegisterUserL
    \/ RegisterForActivityL

SpecLoad == InitLoad /\ [][NextLoad]_vars

----------------------------------------------------------------------------
(* Properties.                                                             *)

UserExists(doc, id) == \E i \in 1..Len(doc.users) : doc.users[i].id = id
ActivityExists(doc, id) == \E j \in 1..Len(doc.activities) : doc.activities[j].id = id

NoRepeat(lst) == \A i, j \in 1..Len(lst) : i # j => lst[i] # lst[j]

IsRegistered(ret) == Len(ret) = 2 /\ ret[1] = "registered for activity: "

\* the file holds the in-memory document: it is its dump, and reads back as it
Persisted ==
    /\ file.exists
    /\ file.parses
    /\ file.json = json_dump(data)
    /\ load_data(file) = data

\* C1: from an empty store, after any sequence of add_activity,
\* register_user, register_for_activity and unregister calls, an activity's
\* id is in a user's registered_activities exactly when the user's id is in
\* the activity's participants, for every user and every activity.
C1_Symmetry ==
    \A i \in 1..Len(data.users), j \in 1..Len(data.activities) :
        In(data.activities[j].id, data.users[i].registered_activities)
            <=> In(data.users[i].id, data.activities[j].participants)

\* an unregister has happened and left one registration of that user standing
C1_Witness ==
    /\ op.name = "unregister"
    /\ \E i \in 1..Len(data.users) :
          /\ data.users[i].id = op.user_id
          /\ Len(data.users[i].registered_activities) = 1
          /\ ~In(op.activity_id, data.users[i].registered_activities)

\* C2: whatever the calls, repeated registrations of the same pair and
\* unregistrations among them, no activity id occurs twice in a user's
\* registered_activities and no user id twice in an activity's participants.
C2_NoDuplicates ==
    /\ \A i \in 1..Len(data.users) : NoRepeat(data.users[i].registered_activities)
    /\ \A j \in 1..Len(data.activities) : NoRepeat(data.activities[j].participants)

\* a registration was asked for a second time
C2_Witness ==
    /\ op.name = "register_for_activity"
    /\ result = <<AlreadyRegistered>>
    /\ \E j \in 1..Len(data.activities) : Len(data.activities[j].participants) = 2

\* C3: the ids of the users, and those of the activities, are pairwise
\* distinct and strictly increasing in creation order, which is the order
\* of the collection, also after the document was loaded from the file.
C3_IdsIncreasing ==
    /\ \A i, j \in 1..Len(data.users) : i < j => data.users[i].id < data.users[j].id
    /\ \A i, j \in 1..Len(data.activities) :
          i < j => data.activities[i].id < data.activities[j].id

\* a document of two users and two activities has been loaded from the file
C3_Witness ==
    /\ op.name = "load"
    /\ Len(data.users) = 2
    /\ Len(data.activities) = 2

\* C4: register_for_activity with a user id no stored user has returns the
\* user-not-found outcome and leaves the document and the file as they
\* were, whatever the activity id.
C4_UserNotFound ==
    [][ (op'.name = "register_for_activity" /\ ~UserExists(data, op'.user_id))
            => (result' = <<UserNotFound>> /\ data' = data /\ file' = file) ]_vars

\* the call was made for a missing user and an activity that has participants
C4_Witness ==
    /\ op.name = "register_for_activity"
    /\ result = <<UserNotFound>>
    /\ ~UserExists(data, op.user_id)
    /\ \E j \in 1..Len(data.activities) :
          /\ data.activities[j].id = op.activity_id
          /\ data.activities[j].participants # <<>>

\* C5: register_for_activity returns the first that applies of
\* user-not-found, activity-not-found, already-registered and success, in
\* this order; the first three leave the document and the file alone.
C5_Outcomes ==
    [][ op'.name = "register_for_activity" =>
          LET uid == op'.user_id
              aid == op'.activity_id
              already == \E i \in 1..Len(data.users) :
                            /\ data.users[i].id = uid
                            /\ In(aid, data.users[i].registered_activities)
          IN /\ result' \in {<<UserNotFound>>, <<ActivityNotFound>>, <<AlreadyRegistered>>}
                            \cup {Registered(data.activities[j].name) :
                                     j \in 1..Len(data.activities)}
             /\ result' = <<UserNotFound>> <=> ~UserExists(data, uid)
             /\ result' = <<ActivityNotFound>> <=>
                    (UserExists(data, uid) /\ ~ActivityExists(data, aid))
             /\ result' = <<AlreadyRegistered>> <=>
                    (UserExists(data, uid) /\ ActivityExists(data, aid) /\ already)
             /\ IsRegistered(result') <=>
                    (UserExists(data, uid) /\ ActivityExists(data, aid) /\ ~already)
             /\ ~IsRegistered(result') => (data' = data /\ file' = file) ]_vars

\* the call was made with neither the user nor the activity stored
C5_Witness ==
    /\ op.name = "register_for_activity"
    /\ ~UserExists(data, op.user_id)
    /\ ~ActivityExists(data, op.activity_id)
    /\ result = <<UserNotFound>>
    /\ Len(data.users) >= 1
    /\ Len(data.activities) >= 1

\* the user an executed call named, and whether the call found one
CalledUser == data.users[FindById(data.users, op.user_id)]

\* the spec's rule for the day: some label of the user is, ignoring case, a
\* substring of the weekday name, or is a key of chinese_days whose name is
DayRule(user, activity) ==
    LET day == activity_day(activity.date)
    IN \E i \in 1..Len(user.available_days) :
          LET label == user.available_days[i]
          IN \/ IsSubstring(Lower(label), Lower(day))
             \/ /\ label \in DOMAIN chinese_days
                /\ IsSubstring(Lower(chinese_days[label]), Lower(day))

MatchRule(user, activity) ==
    /\ DayRule(user, activity)
    /\ \/ \E i \in 1..Len(user.preferred_categories) :
             user.preferred_categories[i] = activity.category
       \/ activity.location = user.location

AllParseable == \A j \in 1..Len(data.activities) : Parseable(data.activities[j].date)

\* C6 as stated: for an existing user and every stored activity with a
\* parseable date, the activity is in match_activities(user) exactly when
\* the day rule holds together with the category or the location.
C6_MatchRule_AsStated ==
    (op.name = "match_activities" /\ UserExists(data, op.user_id)) =>
        \A j \in 1..Len(data.activities) :
            Parseable(data.activities[j].date) =>
                ((result.raised = "none" /\ In(data.activities[j], result.value))
                    <=> MatchRule(CalledUser, data.activities[j]))

\* C6, amended: when every stored activity has a parseable date,
\* match_activities(user) returns, and an activity is in what it returns
\* exactly when the day rule holds together with the category or the
\* location.
C6_MatchRule ==
    (op.name = "match_activities" /\ UserExists(data, op.user_id) /\ AllParseable) =>
        /\ result.raised = "none"
        /\ \A j \in 1..Len(data.activities) :
              In(data.activities[j], result.value)
                  <=> MatchRule(CalledUser, data.activities[j])
        /\ \A k \in 1..Len(result.value) : In(result.value[k], data.activities)

\* a call returned one of two stored activities and not the other
C6_Witness ==
    /\ op.name = "match_activities"
    /\ UserExists(data, op.user_id)
    /\ AllParseable
    /\ Len(data.activities) = 2
    /\ result.raised = "none"
    /\ Len(result.value) = 1

\* the weekday a label of either vocabulary denotes (0 is Monday), -1 for
\* a string of neither
Denotes(label) ==
    IF Len(label) = 2 /\ label[1] = "zhou"
       /\ label[2] \in {"yi", "er", "san", "si", "wu", "liu", "ri"}
    THEN CASE label[2] = "yi" -> 0 [] label[2] = "er" -> 1 [] label[2] = "san" -> 2
           [] label[2] = "si" -> 3 [] label[2] = "wu" -> 4 [] label[2] = "liu" -> 5
           [] label[2] = "ri" -> 6
    ELSE IF \E w \in 1..7 : Lower(label) = Lower(DayNames[w])
    THEN (CHOOSE w \in 1..7 : Lower(label) = Lower(DayNames[w])) - 1
    ELSE -1

InVocabulary(user) ==
    \A i \in 1..Len(user.available_days) : Denotes(user.available_days[i]) # -1

\* C7: for a user whose available_days are labels of the local vocabulary
\* or weekday names, match_activities never returns an activity whose
\* weekday is not one that a label of the user denotes.
C7_DayExcluded ==
    (op.name = "match_activities" /\ UserExists(data, op.user_id)
        /\ InVocabulary(CalledUser) /\ result.raised = "none") =>
        \A k \in 1..Len(result.value) :
            \E i \in 1..Len(CalledUser.available_days) :
                Denotes(CalledUser.available_days[i]) = Weekday(result.value[k].date)

\* a call for such a user left out an activity of the user's category or
\* location because of its day, and returned another
C7_Witness ==
    /\ op.name = "match_activities"
    /\ UserExists(data, op.user_id)
    /\ InVocabulary(CalledUser)
    /\ result.raised = "none"
    /\ Len(result.value) = 1
    /\ \E j \in 1..Len(data.activities) :
          /\ ~In(data.activities[j], result.value)
          /\ data.activities[j].location = CalledUser.location

\* C8: when add_activity, register_user, a successful register_for_activity
\* or unregister has returned, the file holds the in-memory document.
C8_WriteThrough ==
    (\/ op.name \in {"add_activity", "register_user", "unregister"}
     \/ (op.name = "register_for_activity" /\ IsRegistered(result)))
        => Persisted

\* an unregister has returned and a registration is still in the document
C8_Witness ==
    /\ op.name = "unregister"
    /\ Persisted
    /\ \E j \in 1..Len(data.activities) : data.activities[j].participants # <<>>

\* C9: every id in a user's registered_activities is the id of a stored
\* activity, and every id in an activity's participants is the id of a
\* stored user.
C9_References ==
    /\ \A i \in 1..Len(data.users) :
          \A k \in 1..Len(data.users[i].registered_activities) :
              ActivityExists(data, data.users[i].registered_activities[k])
    /\ \A j \in 1..Len(data.activities) :
          \A k \in 1..Len(data.activities[j].participants) :
              UserExists(data, data.activities[j].participants[k])

\* a registration for an activity that is not stored was refused to a user
\* who has one
C9_Witness ==
    /\ op.name = "register_for_activity"
    /\ result = <<ActivityNotFound>>
    /\ CalledUser.registered_activities # <<>>

\* the document with activity number a put back at the end of user number
\* u's list, and with that user put back among the activity's participants
WithUserSide(doc, u, a) ==
    [doc EXCEPT !.users[u].registered_activities = Append(@, doc.activities[a].id)]
WithActivitySide(doc, u, a) ==
    [doc EXCEPT !.activities[a].participants = Append(@, doc.users[u].id)]

\* C10: unregister leaves the activity id out of the user's
\* registered_activities and the user id out of the activity's
\* participants, and the file holds the result; it does the same, and
\* reports success, on a document where only one of the two sides is
\* there, and on the document it has just left, which it leaves unchanged.
C10_Unregister ==
    op.name = "unregister" =>
        LET u == FindById(data.users, op.user_id)
            a == FindById(data.activities, op.activity_id)
            again == unregister(data, op.user_id, a)
            user_only == unregister(WithUserSide(data, u, a), op.user_id, a)
            activity_only == unregister(WithActivitySide(data, u, a), op.user_id, a)
        IN /\ ~In(op.activity_id, data.users[u].registered_activities)
           /\ ~In(op.user_id, data.activities[a].participants)
           /\ result = Unregistered(data.activities[a].name)
           /\ Persisted
           /\ again.data = data /\ again.saved /\ again.ret = result
           /\ user_only.data = data /\ user_only.saved /\ user_only.ret = result
           /\ activity_only.data = data /\ activity_only.saved
           /\ activity_only.ret = result

\* an unregister has returned where the user and the activity each have
\* another registration
C10_Witness ==
    /\ op.name = "unregister"
    /\ CalledUser.registered_activities # <<>>
    /\ data.activities[FindById(data.activities, op.activity_id)].participants # <<>>

Loaded == op.name \in {"init", "load"}

\* C11: load returns the stored document when the file exists and parses,
\* and the empty pair of collections when it is absent or does not parse;
\* after load the document always has a users and an activities collection.
C11_Load ==
    Loaded =>
        /\ (file.exists /\ file.parses) => data = json_load(file.json)
        /\ ~(file.exists /\ file.parses) => data = EmptyData
        /\ WellFormed(data)

\* C12: a stored document with both collections and all fields, loaded and
\* then saved with no call in between, is stored again as it was.
C12_RoundTrip ==
    [][ (Loaded /\ file.exists /\ file.parses /\ WellFormed(data) /\ op'.name = "save")
            => file' = file ]_vars

\* a document that no run of the script wrote, with two users registered
\* for one activity, has been loaded and saved
C12_Witness ==
    /\ op.name = "save"
    /\ Len(data.users) = 2
    /\ data.users[1].id = 3
    /\ data.activities[1].participants = <<7, 3>>
    /\ file = save_data(data)

\* C13: a successful register_for_activity(u, a) puts a at the end of u's
\* registered_activities and u at the end of a's participants, and leaves
\* every other record, every other field of the two records, and the
\* length and order of both collections as they were.
C13_RegisterFrame ==
    [][ (op'.name = "register_for_activity" /\ IsRegistered(result')) =>
          LET uid == op'.user_id
              aid == op'.activity_id
          IN /\ DOMAIN data' = DOMAIN data
             /\ Len(data'.users) = Len(data.users)
             /\ Len(data'.activities) = Len(data.activities)
             /\ \A i \in 1..Len(data.users) :
                   data'.users[i] =
                       IF data.users[i].id = uid
                       THEN [id |-> data.users[i].id,
                             name |-> data.users[i].name,
                             location |-> data.users[i].location,
                             preferred_categories |-> data.users[i].preferred_categories,
                             available_days |-> data.users[i].available_days,
                             registered_activities |->
                                 data.users[i].registered_activities \o <<aid>>]
                       ELSE data.users[i]
             /\ \A j \in 1..Len(data.activities) :
                   data'.activities[j] =
                       IF data.activities[j].id = aid
                       THEN [id |-> data.activities[j].id,
                             name |-> data.activities[j].name,
                             category |-> data.activities[j].category,
                             location |-> data.activities[j].location,
                             date |-> data.activities[j].date,
                             time_range |-> data.activities[j].time_range,
                             description |-> data.activities[j].description,
                             participants |-> data.activities[j].participants \o <<uid>>]
                       ELSE data.activities[j] ]_vars

\* a registration has been added behind an earlier one, in the user's list
\* and in the activity's
C13_Witness ==
    /\ op.name = "register_for_activity"
    /\ IsRegistered(result)
    /\ Len(CalledUser.registered_activities) = 2
    /\ CalledUser.registered_activities[2] = op.activity_id
    /\ \E j \in 1..Len(data.activities) :
          /\ data.activities[j].id = op.activity_id
          /\ Len(data.activities[j].participants) = 2
          /\ data.activities[j].participants[2] = op.user_id

\* the records of old are the first records of new, each with the id and
\* the other creation-time fields it had, and no later record has the id
\* of one of them
KeepsRecords(old, new, fields) ==
    /\ Len(old) <= Len(new)
    /\ \A i \in 1..Len(old) : \A f \in fields : new[i][f] = old[i][f]
    /\ \A i \in 1..Len(old) : \A k \in (Len(old) + 1)..Len(new) : new[k].id # old[i].id

\* C14: in every step the users and the activities collection keep their
\* records, in place and with their ids: nothing is removed, renumbered or
\* given an id already used.
C14_AppendOnly ==
    [][ /\ KeepsRecords(data.users, data'.users, {"id", "name", "location"})
        /\ KeepsRecords(data.activities, data'.activities,
                        {"id", "name", "category", "location"}) ]_vars

\* both collections have grown to two records and a registration was
\* cancelled
C14_Witness ==
    /\ op.name = "unregister"
    /\ Len(data.users) = 2
    /\ Len(data.activities) = 2

\* ---------------------------------------------------------------------
\* A registration and its cancelling, followed step by step.  undo holds
\* the document and the file as they were before the last successful
\* register_for_activity (phase 1), keeps them when the next step cancels
\* that very registration (phase 2), and when the step after that
\* registers the same pair again (phase 3); any other step forgets them.

Remember(phase) == [phase |-> phase, data |-> data, file |-> file]

SamePair(user_id, activity_id) ==
    /\ op.name \in {"register_for_activity", "unregister"}
    /\ op.user_id = user_id
    /\ op.activity_id = activity_id

AddActivityU ==
    \E i \in Activities :
        /\ Len(data.activities) < MaxActivities
        /\ Finish("add_activity", 0, 0,
                  add_activity(data, i.name, i.category, i.location, i.date,
                               i.time_range, i.description))
        /\ undo' = NoUndo
        /\ UNCHANGED peer

RegisterUserU ==
    \E i \in Users :
        /\ Len(data.users) < MaxUsers
        /\ Finish("register_user", 0, 0,
                  register_user(data, i.name, i.location, i.preferred_categories,
                                i.available_days))
        /\ undo' = NoUndo
        /\ UNCHANGED peer

RegisterForActivityU ==
    \E user_id \in UserIds, activity_id \in ActivityIds :
        LET r == register_for_activity(data, user_id, activity_id)
        IN /\ Registrations(r.data.users) <= MaxRegistrations
           /\ Finish("register_for_activity", user_id, activity_id, r)
           /\ undo' = IF ~IsRegistered(r.ret) THEN NoUndo
                      ELSE IF undo.phase = 2 /\ SamePair(user_id, activity_id)
                           THEN Remember(3)
                      ELSE Remember(1)
           /\ UNCHANGED peer

UnregisterU ==
    \E user_id \in UserIds, a \in 1..Len(data.activities) :
        /\ In(data.activities[a], list_user_activities(data, user_id))
        /\ Finish("unregister", user_id, data.activities[a].id, unregister(data, user_id, a))
        /\ undo' = IF undo.phase \in {1, 3} /\ SamePair(user_id, data.activities[a].id)
                   THEN [undo EXCEPT !.phase = 2]
                   ELSE NoUndo
        /\ UNCHANGED peer

NextUndo ==
    \/ AddActivityU
    \/ RegisterUserU
    \/ RegisterForActivityU
    \/ UnregisterU

SpecUndo == Init /\ [][NextUndo]_vars

\* C15: cancelling a registration straight after it was made puts the
\* document and the file back as they were before the registration, and
\* registering the same user for the same activity then succeeds again.
C15_Inverse ==
    [][ /\ undo'.phase = 2 => (data' = undo'.data /\ file' = undo'.file)
        /\ (/\ undo.phase = 2
            /\ op'.name = "register_for_activity"
            /\ op'.user_id = op.user_id
            /\ op'.activity_id = op.activity_id) => IsRegistered(result') ]_vars

\* a registration made, cancelled and made again, next to another
\* registration that stayed
C15_Witness ==
    /\ undo.phase = 3
    /\ IsRegistered(result)
    /\ Registrations(data.users) = 2
    /\ Registrations(undo.data.users) = 1

\* ---------------------------------------------------------------------
\* Two matchers on one data file.  data, op and result are the first
\* matcher's; peer holds the same three of the second, constructed from the
\* same file (line 124, once per running script).  Both write the one file.

PeerFinish(name, r) ==
    /\ peer' = [data |-> r.data, op |-> Call(name, 0, 0), result |-> r.ret]
    /\ file' = IF r.saved THEN save_data(r.data) ELSE file
    /\ UNCHANGED <<data, op, result, undo>>

PeerLoad ==
    PeerFinish("load", [data |-> load_data(file), ret |-> <<>>, saved |-> FALSE])

PeerAddActivity ==
    \E i \in Activities :
        /\ Len(peer.data.activities) < MaxActivities
        /\ PeerFinish("add_activity",
                      add_activity(peer.data, i.name, i.category, i.location, i.date,
                                   i.time_range, i.description))

PeerRegisterUser ==
    \E i \in Users :
        /\ Len(peer.data.users) < MaxUsers
        /\ PeerFinish("register_user",
                      register_user(peer.data, i.name, i.location,
                                    i.preferred_categories, i.available_days))

NextTwo ==
    \/ Load
    \/ AddActivity
    \/ RegisterUser
    \/ PeerLoad
    \/ PeerAddActivity
    \/ PeerRegisterUser

SpecTwo == Init /\ [][NextTwo]_vars

\* the step is an add_activity or register_user of a matcher whose
\* document was before and is after
Mutates(before, after, call) ==
    /\ call.name \in {"add_activity", "register_user"}
    /\ after # before

\* the operation handed back the record it stored, the last of one of the
\* two collections
Stored(doc, ret) ==
    \/ doc.activities # <<>> /\ ret = doc.activities[Len(doc.activities)]
    \/ doc.users # <<>> /\ ret = doc.users[Len(doc.users)]

\* C16: with two matchers on one file, every mutating operation of either
\* reports success and leaves in the file the whole document of the matcher
\* that made it and nothing else, so what the other matcher saved before and
\* this one had not loaded is gone from the file, without an error to
\* either.
C16_LastSaveWins ==
    [][ /\ Mutates(data, data', op') =>
               (file' = save_data(data') /\ Stored(data', result'))
        /\ Mutates(peer.data, peer'.data, peer'.op) =>
               (file' = save_data(peer'.data) /\ Stored(peer'.data, peer'.result)) ]_vars

\* the first matcher added an activity and was handed it back; the second
\* matcher then registered a user and saved; the file holds the second
\* matcher's document and no activity
C16_Witness ==
    /\ op.name = "add_activity"
    /\ result = data.activities[Len(data.activities)]
    /\ peer.op.name = "register_user"
    /\ peer.result = peer.data.users[Len(peer.data.users)]
    /\ file = save_data(peer.data)
    /\ load_data(file).activities = <<>>
    /\ load_data(file).users # <<>>

\* ---------------------------------------------------------------------
\* The operations that only read, over documents with registrations and
\* with activities whose date is no calendar date.

ActivitiesR ==
    Activities \cup { NewActivity("library", Education, Xicheng, Date(2023, 2, 29)) }

AddActivityR == AddActivityOf(ActivitiesR, MaxActivitiesR)

RegisterUserR == RegisterUserOf(Users, MaxUsersR)

RegisterForActivityR ==
    \E user_id \in UserIds, activity_id \in ActivityIds :
        LET r == register_for_activity(data, user_id, activity_id)
        IN /\ Registrations(r.data.users) <= MaxRegistrationsR
           /\ Return("register_for_activity", user_id, activity_id, r)

NextRead ==
    \/ AddActivityR
    \/ RegisterUserR
    \/ RegisterForActivityR
    \/ MatchActivities
    \/ ListActivities
    \/ ListUserActivities

SpecRead == Init /\ [][NextRead]_vars

\* C17: called with an id no stored user has, match_activities and
\* list_user_activities return the empty list and raise nothing, whatever
\* activities are stored, those with a date that does not parse included.
C17_UnknownUser ==
    ~UserExists(data, op.user_id) =>
        /\ op.name = "match_activities" => result = [raised |-> "none", value |-> <<>>]
        /\ op.name = "list_user_activities" => result = <<>>

\* match_activities was called for an id nobody has while a user and an
\* activity with an unparseable date were stored
C17_Witness ==
    /\ op.name = "match_activities"
    /\ ~UserExists(data, op.user_id)
    /\ data.users # <<>>
    /\ ~AllParseable
    /\ result.raised = "none"

\* C18: add_activity stores and returns the activity whatever its date
\* string is, and while an activity with an unparseable date is stored
\* match_activities raises ValueError for every existing user, also when
\* neither the category nor the location of that activity matches the
\* user.
C18_BadDate ==
    /\ op.name = "add_activity" =>
          (data.activities # <<>> /\ result = data.activities[Len(data.activities)])
    /\ (op.name = "match_activities" /\ UserExists(data, op.user_id) /\ ~AllParseable) =>
          result.raised = "ValueError"

\* the call raised although the only activity with a bad date has neither
\* the user's category nor the user's location, and the activity before it
\* matched
C18_Witness ==
    /\ op.name = "match_activities"
    /\ UserExists(data, op.user_id)
    /\ result.raised = "ValueError"
    /\ Len(data.activities) = 2
    /\ Parseable(data.activities[1].date)
    /\ is_match(CalledUser, data.activities[1])
    /\ ~Parseable(data.activities[2].date)
    /\ ~category_matched(CalledUser, data.activities[2])
    /\ ~location_matched(CalledUser, data.activities[2])

\* s is t with some elements left out
RECURSIVE IsSubsequence(_, _)
IsSubsequence(s, t) ==
    IF s = <<>> THEN TRUE
    ELSE IF t = <<>> THEN FALSE
    ELSE IF Head(s) = Head(t) THEN IsSubsequence(Tail(s), Tail(t))
    ELSE IsSubsequence(s, Tail(t))

\* C19: match_activities, list_activities and list_user_activities leave
\* the document and the file as they were, for every id they are called
\* with, and what match_activities returns is the activities collection
\* with some activities left out: same order, none twice.
C19_ReadOnly ==
    [][ /\ op'.name \in {"match_activities", "list_activities", "list_user_activities"} =>
              (data' = data /\ file' = file)
        /\ (op'.name = "match_activities" /\ result'.raised = "none") =>
              (/\ IsSubsequence(result'.value, data.activities)
               /\ NoRepeat(result'.value)) ]_vars

\* match_activities returned two activities while a registration was
\* stored
C19_Witness ==
    /\ op.name = "match_activities"
    /\ result.raised = "none"
    /\ Len(result.value) = 2
    /\ Registrations(data.users) = 1
    /\ file = save_data(data)

====
